---- MODULE Spec2Model ----
(***************************************************************************)
(* Model of the iterative model-complexity search of                       *)
(* src/vlbi_errors/automodel.py: the AutoModeler forward loop with its     *)
(* stopping-criterion combinator, and the best-model selectors.            *)
(*                                                                         *)
(* Fluxes and sizes are integers in units of 0.0005 (Jy or mas), so that   *)
(* the comparisons of the code are exact.                                  *)
(***************************************************************************)
EXTENDS Integers, Sequences, FiniteSets, TLC

VARIABLES
    counter,             \* AutoModeler.counter
    model,               \* AutoModeler.model: component count, 0 for None
    disk,                \* fitted model files: number -> component count, 0 if absent
    fitted_model_paths,  \* AutoModeler.fitted_model_paths
    n_comps_terminate,   \* AutoModeler.n_comps_terminate
    stoppers,            \* the list `stoppers` of AutoModeler.run
    decisions,           \* do_stop results of the latest iteration, per stopper
    pc,                  \* position of the driver: idle, loop, done, failed
    run_outcome,         \* what the caller of run got: pending, None, exception
    call_order,          \* stoppers in the order run called do_stop, latest pass
    init_files,          \* init_N.mdl files: number -> component count, 0 if absent
    residuals,           \* residuals.uvf: -1 if absent, else the component count
                         \* of the model subtracted from the data, 0 for raw data
    sel_files,           \* the list handed to a selector's select
    hist,                \* core component of each model file of the history
    sel_k,               \* index returned by the latest select
    sel_pc,              \* which select ran last: none, flux, size
    walk_files,          \* __main__: the list `files` the filters walk over
    rejected,            \* per model file: some registered filter rejects it
    id_best,             \* __main__: id_best
    examined,            \* model files handed to the filters, in order
    best_model,          \* __main__: best_model
    flt_pc,              \* position of __main__: idle, walk, reported
    exp_comps,           \* the components handed to export_difmap_model
    mdl_file,            \* the lines of the model file written
    imp_comps,           \* the list import_difmap_model returns
    rt_pc,               \* position of the round trip: idle, exported, imported
    ov_comps,            \* components of the model file handed to do_filter
    ov_result,           \* what do_filter returned
    ov_pc,               \* position of do_filter: idle, returned
    oc_result,           \* what check_criterion of the overlap criterion returned
    oc_pc,               \* position of that check_criterion: idle, returned
    sg_image,            \* the residual image suggest_component works on
    sg_comp,             \* the component suggest_component returns
    sg_pc,               \* position of suggest_component: idle, returned
    nl_cores,            \* core component of each of the criterion's files
    nl_n_check,          \* n_check of the windowed criterion
    nl_verdict,          \* what check_criterion returned
    nl_pc,               \* which check_criterion ran: none, differs, small
    cached_ccimage,      \* AutoModeler._ccimage: 0 for None, else the number of
                         \* the clean_difmap call that rendered the image
    cached_beam,         \* AutoModeler._beam: 0 for None, else the image it is of
    cached_total_flux,   \* AutoModeler._total_flux: 0 for None, else its image
    clean_calls,         \* calls of clean_difmap on the original data so far
    got,                 \* the latest access: property, image, raised or not
    n_access             \* accesses of the three properties so far

run_vars == <<counter, model, disk, fitted_model_paths, n_comps_terminate,
              stoppers, decisions, pc, run_outcome, call_order, init_files,
              residuals>>
sel_vars == <<sel_files, hist, sel_k, sel_pc>>
flt_vars == <<walk_files, rejected, id_best, examined, best_model, flt_pc>>
rt_vars == <<exp_comps, mdl_file, imp_comps, rt_pc>>
ov_vars == <<ov_comps, ov_result, ov_pc, oc_result, oc_pc>>
sg_vars == <<sg_image, sg_comp, sg_pc>>
nl_vars == <<nl_cores, nl_n_check, nl_verdict, nl_pc>>
im_vars == <<cached_ccimage, cached_beam, cached_total_flux, clean_calls, got,
             n_access>>
vars == <<run_vars, sel_vars, flt_vars, rt_vars, ov_vars, sg_vars, nl_vars,
          im_vars>>

\* What the actions of one part of the program leave alone.
but_run_vars == <<sel_vars, flt_vars, rt_vars, ov_vars, sg_vars, nl_vars,
                   im_vars>>
but_sel_vars == <<run_vars, flt_vars, rt_vars, ov_vars, sg_vars, nl_vars,
                   im_vars>>
but_flt_vars == <<run_vars, sel_vars, rt_vars, ov_vars, sg_vars, nl_vars,
                   im_vars>>
but_rt_vars == <<run_vars, sel_vars, flt_vars, ov_vars, sg_vars, nl_vars,
                   im_vars>>
but_ov_vars == <<run_vars, sel_vars, flt_vars, rt_vars, sg_vars, nl_vars,
                   im_vars>>
but_sg_vars == <<run_vars, sel_vars, flt_vars, rt_vars, ov_vars, nl_vars,
                   im_vars>>
but_im_vars == <<run_vars, sel_vars, flt_vars, rt_vars, ov_vars, sg_vars,
                 nl_vars>>
but_nl_vars == <<run_vars, sel_vars, flt_vars, rt_vars, ov_vars, sg_vars,
                   im_vars>>

\* Bounds of the model.
MaxIter == 4         \* iterations of the forward loop that are explored
MaxTerminate == 2    \* largest configured n_comps_terminate
MaxStoppers == 2     \* criteria the caller registers
MaxHist == 3         \* length of the history handed to a selector

(***************************************************************************)
(* File names.  A fitted model file is '<prefix>_<N>.mdl' in out_dir.      *)
(***************************************************************************)
Digit == <<"0", "1", "2", "3", "4", "5", "6", "7", "8", "9">>

DigitValue(ch) == CHOOSE d \in 0..9 : Digit[d + 1] = ch

RECURSIVE str(_)
\* '{}'.format(n) for n >= 0
str(n) == IF n < 10 THEN <<Digit[n + 1]>>
          ELSE str(n \div 10) \o <<Digit[(n % 10) + 1]>>

RECURSIVE int(_)
\* int(s) for a string of decimal digits
int(s) == IF Len(s) = 0 THEN 0
          ELSE 10 * int(SubSeq(s, 1, Len(s) - 1)) + DigitValue(s[Len(s)])

\* AutoModeler._mdl_prefix: '{source}_{freq}_{epoch}_{core_type}_fitted'
mdl_prefix == <<"c", "g", "_", "f">>

\* Mutant: the number of the iteration is not put into the name.
mdl_path_unnumbered(n) ==
    [dir |-> "out_dir", name |-> mdl_prefix \o <<"_", "1", ".", "m", "d", "l">>]

\* os.path.join(out_dir, '{}_{}.mdl'.format(_mdl_prefix, n))
mdl_path(n) == [dir |-> "out_dir",
                name |-> mdl_prefix \o <<"_">> \o str(n) \o <<".", "m", "d", "l">>]

RECURSIVE LastSplit(_, _)
\* s.split(sep)[-1]
LastSplit(s, sep) ==
    IF Len(s) = 0 THEN <<>>
    ELSE IF s[Len(s)] = sep THEN <<>>
    ELSE LastSplit(SubSeq(s, 1, Len(s) - 1), sep) \o <<s[Len(s)]>>

RECURSIVE FirstSplit(_, _)
\* s.split(sep)[0]
FirstSplit(s, sep) ==
    IF Len(s) = 0 THEN <<>>
    ELSE IF s[1] = sep THEN <<>>
    ELSE <<s[1]>> \o FirstSplit(SubSeq(s, 2, Len(s)), sep)

\* the sort key of order_files: int(x.split('_')[-1].split('.')[0])
file_number(name) == int(FirstSplit(LastSplit(name, "_"), "."))

(***************************************************************************)
(* Stopping criteria.                                                      *)
(***************************************************************************)
Modes == {"and", "or", "while"}

\* A criterion as constructed: no files yet.  kind "verdict" stands for every
\* criterion whose check_criterion reads model files and images; kind
\* "juststop" is NLastJustStop.  nchecked counts calls of check_criterion.
Criterion(kind, mode, n_check) ==
    [kind |-> kind, mode |-> mode, n_check |-> n_check,
     files |-> <<>>, nchecked |-> 0]

\* Mutant: the cap is an AND criterion.
NLastJustStop_and(n) == Criterion("juststop", "and", n)

\* NLastJustStop(n): mode "or" by default
NLastJustStop(n) == Criterion("juststop", "or", n)

\* Mutant: applicable as soon as n_check files exist.
is_applicable_at_n_check(c) == Len(c.files) >= c.n_check

\* is_applicable: len(self.files) > n_check.  n_check = 0 is the
\* `return self.files` of the image based criteria, n_check = 1 the
\* `len(self.files) > 1` of AddedOverlappingComponentStopping.
is_applicable(c) == Len(c.files) > c.n_check

\* check_criterion: True for NLastJustStop; for the others the verdict v is
\* decided by the contents of the files and images, an input of the model.
check_criterion(c, v) == IF c.kind = "juststop" THEN TRUE ELSE v

\* Mutant: do_stop without the is_applicable guard.
do_stop_unguarded(c, new_file, v) ==
    LET c1 == [c EXCEPT !.files = Append(@, new_file)]
    IN  [stopper |-> [c1 EXCEPT !.nchecked = @ + 1],
         result |-> check_criterion(c1, v)]

\* Mutant: the file is kept only by a criterion that is applicable.
do_stop_feed_when_applicable(c, new_file, v) ==
    LET c1 == [c EXCEPT !.files = Append(@, new_file)]
    IN  IF is_applicable(c1)
        THEN [stopper |-> [c1 EXCEPT !.nchecked = @ + 1],
              result |-> check_criterion(c1, v)]
        ELSE [stopper |-> c, result |-> FALSE]

\* StoppingIterationsCriterion.do_stop: the criterion after the call and the
\* value returned.
do_stop(c, new_file, v) ==
    LET c1 == [c EXCEPT !.files = Append(@, new_file)]
    IN  IF is_applicable(c1)
        THEN [stopper |-> [c1 EXCEPT !.nchecked = @ + 1],
              result |-> check_criterion(c1, v)]
        ELSE [stopper |-> c1, result |-> FALSE]

(***************************************************************************)
(* The combinator of AutoModeler.run.  st is the list of stoppers, d the   *)
(* value each stopper's do_stop returned on this iteration.                *)
(***************************************************************************)
ModeIdx(st, m) == {i \in 1..Len(st) : st[i].mode = m}

\* [stopper for stopper in stoppers if stopper.mode == m], as positions in st
RECURSIVE stoppers_of(_, _, _)
stoppers_of(st, m, i) ==
    IF i > Len(st) THEN <<>>
    ELSE (IF st[i].mode = m THEN <<i>> ELSE <<>>) \o stoppers_of(st, m, i + 1)

\* The order of the do_stop calls of one pass: decisions_and, decisions_or,
\* decisions_while.
do_stop_order(st) ==
    stoppers_of(st, "and", 1) \o stoppers_of(st, "or", 1)
        \o stoppers_of(st, "while", 1)

\* Mutant: the decisions of the WHILE criteria are taken as they are.
while_continue_unnegated(st, d) == \E i \in ModeIdx(st, "while") : d[i]

\* np.any(decisions_while), decisions_while = [not stopper.do_stop(...)]
while_continue(st, d) == \E i \in ModeIdx(st, "while") : ~d[i]

\* Mutant: np.any(decisions_and) in place of np.alltrue(decisions_and).
stop_decision_any_and(st, d) ==
    \/ \E i \in ModeIdx(st, "and") : d[i]
    \/ \E i \in ModeIdx(st, "or") : d[i]

\* Mutant: `and` in place of `or` between the two groups.
stop_decision_both(st, d) ==
    /\ \A i \in ModeIdx(st, "and") : d[i]
    /\ \E i \in ModeIdx(st, "or") : d[i]

\* Mutant: an empty AND group does not count as satisfied.
stop_decision_needs_and(st, d) ==
    \/ /\ ModeIdx(st, "and") # {}
       /\ \A i \in ModeIdx(st, "and") : d[i]
    \/ \E i \in ModeIdx(st, "or") : d[i]

\* do_stop = np.alltrue(decisions_and) or np.any(decisions_or)
stop_decision(st, d) ==
    \/ \A i \in ModeIdx(st, "and") : d[i]
    \/ \E i \in ModeIdx(st, "or") : d[i]

(***************************************************************************)
(* AutoModeler.do_iteration.                                               *)
(***************************************************************************)
\* The backend refit (difmap modelfit) varies the parameters of the
\* components of the file it is given and keeps their number.
modelfit_difmap(n_in) == n_in

\* create_residuals(model): what is subtracted from the data, the model as
\* its component count, 0 for None (the data are the residuals)
create_residuals(mdl) == mdl

\* Mutant: the copy of the previous file is refitted without the new component.
init_model_no_append(cnt, d) == IF cnt > 1 THEN d[cnt - 1] ELSE 1

\* Component count of init_<cnt>.mdl: a copy of fitted file cnt-1 with the
\* suggested component appended, or a fresh one-component file.
init_model(cnt, d) == IF cnt > 1 THEN d[cnt - 1] + 1 ELSE 1

\* Mutant: clear also forgets the in-memory model.
clear_forgets_model(cnt, paths, mdl) ==
    [counter |-> 0, fitted_model_paths |-> <<>>, model |-> 0]

\* AutoModeler.clear: the counter and the list of fitted files are reset,
\* nothing else is assigned.
clear(cnt, paths, mdl) ==
    [counter |-> 0, fitted_model_paths |-> <<>>, model |-> mdl]

(***************************************************************************)
(* Model selectors.  A core is the first component of a model file:        *)
(* flux = comp.p[0], size = comp.p[3].                                     *)
(***************************************************************************)
\* Parameters of the selectors, in units of 0.0005; fractions as num/den.
delta_flux == 2                \* FluxBasedModelSelector(delta_flux=0.001)
frac_flux_num == 1             \* FluxBasedModelSelector(frac_flux=0.01)
frac_flux_den == 100
delta_size == 2                \* SizeBasedModelSelector(delta_size=0.001)
frac_size_num == 1             \* SizeBasedModelSelector(frac_size=0.01)
frac_size_den == 100
small_size_of_the_core == 2    \* small_size_of_the_core=0.001

Abs(x) == IF x < 0 THEN -x ELSE x

\* a list with its elements computed (np.array(...), list(...))
list(s) == s \o <<>>

RECURSIVE insert_by_number(_, _)
\* x put behind every element of the sorted list s whose key is not larger
insert_by_number(s, x) ==
    IF Len(s) = 0 THEN <<x>>
    ELSE IF file_number(s[Len(s)].name) <= file_number(x.name)
         THEN Append(s, x)
         ELSE Append(insert_by_number(SubSeq(s, 1, Len(s) - 1), x), s[Len(s)])

RECURSIVE sorted_by_number(_)
\* sorted(files, key=lambda x: int(x.split('_')[-1].split('.')[0]))
sorted_by_number(s) ==
    IF Len(s) = 0 THEN <<>>
    ELSE insert_by_number(sorted_by_number(SubSeq(s, 1, Len(s) - 1)), s[Len(s)])

\* Mutant: the files are taken in the order given.
order_files_as_listed(files) == files

\* ModelSelector.order_files: the base names sorted by the embedded number,
\* joined to the directory of the first file.
order_files(files) ==
    LET out_dir == files[1].dir
        names == sorted_by_number(files)
    IN  list([i \in 1..Len(files) |-> [dir |-> out_dir, name |-> names[i].name]])

\* Mutant: the number of the entry is returned, not its index.
first_true_number(a) ==
    IF \E i \in 1..Len(a) : a[i]
    THEN CHOOSE i \in 1..Len(a) : a[i] /\ \A j \in 1..(i - 1) : ~a[j]
    ELSE 0

\* list(a).index(1), with k = 0 for the ValueError of a mask without a 1
first_true(a) ==
    IF \E i \in 1..Len(a) : a[i]
    THEN (CHOOSE i \in 1..Len(a) : a[i] /\ \A j \in 1..(i - 1) : ~a[j]) - 1
    ELSE 0

\* ndimage.binary_opening(a, structure=np.ones(2)): erosion
\* e[i] = a[i-1] and a[i], then dilation e[i] or e[i+1], zeros outside.
binary_opening(a) ==
    LET at(b, i) == IF i \in 1..Len(b) THEN b[i] ELSE FALSE
        e == list([i \in 1..Len(a) |-> at(a, i - 1) /\ at(a, i)])
    IN  list([i \in 1..Len(a) |-> at(e, i) \/ at(e, i + 1)])

\* Mutant: the mask is opened whatever the number of its true entries.
mask_index_always_open(a) == first_true(binary_opening(a))

\* the try block shared by both select methods
mask_index(a) ==
    IF Cardinality({i \in 1..Len(a) : a[i]}) = 1
    THEN first_true(a)
    ELSE first_true(binary_opening(a))

\* FluxBasedModelSelector.select on the fluxes of the ordered files:
\* a = abs(fluxes - last_flux) < min(delta_flux, frac_flux*last_flux)
flux_mask(fluxes) ==
    LET last_flux == fluxes[Len(fluxes)]
    IN  list([i \in 1..Len(fluxes) |->
                 /\ Abs(fluxes[i] - last_flux) < delta_flux
                 /\ Abs(fluxes[i] - last_flux) * frac_flux_den
                       < frac_flux_num * last_flux])

flux_index(fluxes) == mask_index(flux_mask(fluxes))

\* SizeBasedModelSelector.select on the sizes of the ordered files.  With
\* last_size = 0 the division gives nan or inf and every comparison is False.
size_mask(sizes) ==
    LET last_size == sizes[Len(sizes)]
    IN  list([i \in 1..Len(sizes) |->
                 IF last_size < small_size_of_the_core
                 THEN /\ last_size # 0
                      /\ Abs(sizes[i] - last_size) * frac_size_den
                            < frac_size_num * Abs(last_size)
                 ELSE /\ Abs(sizes[i] - last_size) < delta_size
                      /\ Abs(sizes[i] - last_size) * frac_size_den
                            < frac_size_num * last_size])

size_index(sizes) == mask_index(size_mask(sizes))

\* import_difmap_model(file_)[0] for each file, h the contents of the files
cores(files, h) == list([i \in 1..Len(files) |-> h[files[i]]])

FluxBasedModelSelector_select(files, h) ==
    LET c == cores(order_files(files), h)
    IN  flux_index(list([i \in 1..Len(c) |-> c[i].flux]))

SizeBasedModelSelector_select(files, h) ==
    LET c == cores(order_files(files), h)
    IN  size_index(list([i \in 1..Len(c) |-> c[i].size]))

(***************************************************************************)
(* Initial state: an AutoModeler as constructed, and the criteria the      *)
(* caller is about to register.                                            *)
(***************************************************************************)
NCheckVals == {0, 1}

Registered ==
    UNION {[1..k -> {Criterion("verdict", m, n) : m \in Modes, n \in NCheckVals}]
           : k \in 0..MaxStoppers}

SelIdle ==
    /\ sel_files = <<>>
    /\ hist = <<>>
    /\ sel_k = 0
    /\ sel_pc = "none"

FltIdle ==
    /\ walk_files = <<>>
    /\ rejected = <<>>
    /\ id_best = 0
    /\ examined = <<>>
    /\ best_model = "none"
    /\ flt_pc = "idle"

RtIdle ==
    /\ exp_comps = <<>>
    /\ mdl_file = <<>>
    /\ imp_comps = <<>>
    /\ rt_pc = "idle"

OvIdle ==
    /\ ov_comps = <<>>
    /\ ov_result = FALSE
    /\ ov_pc = "idle"
    /\ oc_result = FALSE
    /\ oc_pc = "idle"

SgIdle ==
    /\ sg_image = <<>>
    /\ sg_comp = <<>>
    /\ sg_pc = "idle"

NlIdle ==
    /\ nl_cores = <<>>
    /\ nl_n_check = 1
    /\ nl_verdict = FALSE
    /\ nl_pc = "none"

NoAccess == [property |-> "none", image |-> 0, raised |-> FALSE]

ImIdle ==
    /\ cached_ccimage = 0
    /\ cached_beam = 0
    /\ cached_total_flux = 0
    /\ clean_calls = 0
    /\ got = NoAccess
    /\ n_access = 0

Init ==
    /\ counter = 0
    /\ model = 0
    /\ disk = [n \in 1..MaxIter |-> 0]
    /\ fitted_model_paths = <<>>
    /\ n_comps_terminate \in 1..MaxTerminate
    /\ stoppers \in Registered
    /\ decisions = <<>>
    /\ pc = "idle"
    /\ run_outcome = "pending"
    /\ call_order = <<>>
    /\ init_files = [n \in 1..MaxIter |-> 0]
    /\ residuals = -1
    /\ SelIdle
    /\ FltIdle
    /\ RtIdle
    /\ OvIdle
    /\ SgIdle
    /\ NlIdle
    /\ ImIdle

\* run(stoppers): entry, up to the while loop.
RunStart ==
    /\ pc = "idle"
    /\ stoppers' = Append(stoppers, NLastJustStop(n_comps_terminate))
    /\ pc' = "loop"
    /\ UNCHANGED <<counter, model, disk, fitted_model_paths,
                   n_comps_terminate, decisions, run_outcome, call_order,
                   init_files, residuals>>
    /\ UNCHANGED but_run_vars

\* One pass of the while loop of run: do_iteration succeeds, every stopper is
\* fed the new file, and the loop continues or breaks.
RunLoop ==
    /\ pc = "loop"
    /\ counter < MaxIter
    /\ \E v \in [1..Len(stoppers) -> BOOLEAN] :
         LET cnt == counter + 1
             new_mdl_file == mdl_path(cnt)
             res == [i \in 1..Len(stoppers) |->
                        do_stop(stoppers[i], new_mdl_file, v[i])]
             st == [i \in 1..Len(stoppers) |-> res[i].stopper]
             d == [i \in 1..Len(stoppers) |-> res[i].result]
         IN  /\ counter' = cnt
             /\ residuals' = create_residuals(model)
             /\ init_files' = [init_files EXCEPT ![cnt] = init_model(cnt, disk)]
             /\ disk' = [disk EXCEPT ![cnt] = modelfit_difmap(init_files'[cnt])]
             /\ model' = disk'[cnt]
             /\ fitted_model_paths' =
                   IF \E i \in 1..Len(fitted_model_paths) :
                          fitted_model_paths[i] = new_mdl_file
                   THEN fitted_model_paths
                   ELSE Append(fitted_model_paths, new_mdl_file)
             /\ stoppers' = st
             /\ decisions' = d
             /\ pc' = IF while_continue(st, d) THEN "loop"
                      ELSE IF stop_decision(st, d) THEN "done"
                      ELSE "loop"
    /\ run_outcome' = IF pc' = "done" THEN "None" ELSE run_outcome
    /\ call_order' = do_stop_order(stoppers)
    /\ UNCHANGED n_comps_terminate
    /\ UNCHANGED but_run_vars

\* One pass of the while loop in which the backend fails inside do_iteration
\* (create_residuals, suggest_component, modelfit_difmap or the import of the
\* fitted file raises): the exception leaves run.  The residuals and the
\* init file have been written or not, by the place of the failure.
RunLoopFail ==
    /\ pc = "loop"
    /\ counter < MaxIter
    /\ counter' = counter + 1
    /\ \E step \in {"create_residuals", "suggest_component", "modelfit_difmap"} :
          /\ residuals' = IF step = "create_residuals" THEN residuals
                          ELSE create_residuals(model)
          /\ init_files' = IF step = "modelfit_difmap"
                           THEN [init_files EXCEPT
                                    ![counter'] = init_model(counter', disk)]
                           ELSE init_files
    /\ pc' = "failed"
    /\ run_outcome' = "exception"
    /\ UNCHANGED <<model, disk, fitted_model_paths, n_comps_terminate,
                   stoppers, decisions, call_order>>
    /\ UNCHANGED but_run_vars

Next == RunStart \/ RunLoop \/ RunLoopFail

Spec == Init /\ [][Next]_vars

(***************************************************************************)
(* An AutoModeler used again: clear() after a run has returned or raised,  *)
(* then run() once more without a start model.                             *)
(***************************************************************************)
\* Criteria lists handed to the later runs.
Reregistered == {st \in Registered : Len(st) <= 1}

\* clear(): the files on disk, the residuals and the model stay as they are.
Clear ==
    /\ pc \in {"done", "failed"}
    /\ counter > 0
    /\ LET c == clear(counter, fitted_model_paths, model)
       IN  /\ counter' = c.counter
           /\ fitted_model_paths' = c.fitted_model_paths
           /\ model' = c.model
    /\ UNCHANGED <<disk, n_comps_terminate, stoppers, decisions, pc,
                   run_outcome, call_order, init_files, residuals>>
    /\ UNCHANGED but_run_vars

\* run(stoppers) entered again after clear(), start_model_fname = None:
\* a new list of criteria with a new cap, self.model is not assigned.
RunAgain ==
    /\ pc \in {"done", "failed"}
    /\ counter = 0
    /\ \E st \in Reregistered :
          stoppers' = Append(st, NLastJustStop(n_comps_terminate))
    /\ decisions' = <<>>
    /\ pc' = "loop"
    /\ run_outcome' = "pending"
    /\ UNCHANGED <<counter, model, disk, fitted_model_paths,
                   n_comps_terminate, call_order, init_files, residuals>>
    /\ UNCHANGED but_run_vars

ClearNext == RunStart \/ RunLoop \/ RunLoopFail \/ Clear \/ RunAgain

ClearSpec == Init /\ [][ClearNext]_vars

(***************************************************************************)
(* The selectors on their own: a history of model files of one run, listed *)
(* in any order, and the two select methods applied to it.                 *)
(***************************************************************************)
\* Cores of the model files of a history.
CoreVals ==
    { [flux |-> 200, size |-> 200], [flux |-> 199, size |-> 1],
      [flux |-> 203, size |-> 203], [flux |-> 0, size |-> 0],
      [flux |-> -200, size |-> 199] }

\* Number of the first file of the history.
FirstNumbers == {1, 9}

Listings(S) ==
    {f \in [1..Cardinality(S) -> S] :
        \A i, j \in 1..Cardinality(S) : f[i] = f[j] => i = j}

RunIdle ==
    /\ counter = 0
    /\ model = 0
    /\ disk = [n \in 1..MaxIter |-> 0]
    /\ fitted_model_paths = <<>>
    /\ n_comps_terminate = 1
    /\ stoppers = <<>>
    /\ decisions = <<>>
    /\ pc = "idle"
    /\ run_outcome = "pending"
    /\ call_order = <<>>
    /\ init_files = [n \in 1..MaxIter |-> 0]
    /\ residuals = -1

SelInit ==
    /\ RunIdle
    /\ \E first \in FirstNumbers, n \in 1..MaxHist :
         LET paths == {mdl_path(first + i) : i \in 0..(n - 1)}
         IN  /\ sel_files \in Listings(paths)
             /\ hist \in [paths -> CoreVals]
    /\ sel_k = 0
    /\ sel_pc = "none"
    /\ FltIdle
    /\ RtIdle
    /\ OvIdle
    /\ SgIdle
    /\ NlIdle
    /\ ImIdle

FluxSelect ==
    /\ sel_k' = FluxBasedModelSelector_select(sel_files, hist)
    /\ sel_pc' = "flux"
    /\ UNCHANGED <<sel_files, hist>>
    /\ UNCHANGED but_sel_vars

SizeSelect ==
    /\ sel_k' = SizeBasedModelSelector_select(sel_files, hist)
    /\ sel_pc' = "size"
    /\ UNCHANGED <<sel_files, hist>>
    /\ UNCHANGED but_sel_vars

SelNext == FluxSelect \/ SizeSelect

SelSpec == SelInit /\ [][SelNext]_vars

(***************************************************************************)
(* Selection of the best model and the backward walk of the filters, as    *)
(* the driver of __main__ does them on the fitted model files of a run.    *)
(***************************************************************************)
Max(a, b) == IF a > b THEN a ELSE b

\* files[:n]
head(s, n) == SubSeq(s, 1, IF n < Len(s) THEN n ELSE Len(s))

\* s[i] of a Python list, i from -len(s) to len(s) - 1
item(s, i) == IF i >= 0 THEN s[i + 1] ELSE s[Len(s) + i + 1]

\* Mutant: the walk goes forward.
reversed_forward(s) == s

\* files[::-1]
reversed(s) == list([i \in 1..Len(s) |-> s[Len(s) + 1 - i]])

\* The fitted model files of a finished run, the cores in them, and the
\* verdict of the filter set on each of them.
FltInit ==
    /\ RunIdle
    /\ \E n \in 1..MaxHist :
         /\ sel_files = [i \in 1..n |-> mdl_path(i)]
         /\ hist \in [{mdl_path(i) : i \in 1..n} -> CoreVals]
         /\ rejected \in [{mdl_path(i) : i \in 1..n} -> BOOLEAN]
    /\ sel_k = 0
    /\ sel_pc = "none"
    /\ walk_files = <<>>
    /\ id_best = 0
    /\ examined = <<>>
    /\ best_model = "none"
    /\ flt_pc = "idle"
    /\ RtIdle
    /\ OvIdle
    /\ SgIdle
    /\ NlIdle
    /\ ImIdle

\* id_best = max(selector.select(files) ...); files = files[:id_best+1]
SelectBest ==
    /\ flt_pc = "idle"
    /\ id_best' = Max(FluxBasedModelSelector_select(sel_files, hist),
                      SizeBasedModelSelector_select(sel_files, hist))
    /\ walk_files' = head(sel_files, id_best' + 1)
    /\ flt_pc' = "walk"
    /\ UNCHANGED <<rejected, examined, best_model>>
    /\ UNCHANGED but_flt_vars

\* A pass of the for loop in which some filter rejects fn.
FilterReject ==
    /\ flt_pc = "walk"
    /\ Len(examined) < Len(walk_files)
    /\ LET fn == reversed(walk_files)[Len(examined) + 1]
       IN  /\ rejected[fn]
           /\ examined' = Append(examined, fn)
           /\ id_best' = id_best - 1
    /\ UNCHANGED <<walk_files, rejected, best_model, flt_pc>>
    /\ UNCHANGED but_flt_vars

\* A pass of the for loop in which every filter passes fn: break, and the
\* best model is taken.
FilterPass ==
    /\ flt_pc = "walk"
    /\ Len(examined) < Len(walk_files)
    /\ LET fn == reversed(walk_files)[Len(examined) + 1]
       IN  /\ ~rejected[fn]
           /\ examined' = Append(examined, fn)
    /\ best_model' = item(walk_files, id_best)
    /\ flt_pc' = "reported"
    /\ UNCHANGED <<walk_files, rejected, id_best>>
    /\ UNCHANGED but_flt_vars

\* The for loop has run out of files, and the best model is taken.
FilterExhausted ==
    /\ flt_pc = "walk"
    /\ Len(examined) = Len(walk_files)
    /\ best_model' = item(walk_files, id_best)
    /\ flt_pc' = "reported"
    /\ UNCHANGED <<walk_files, rejected, id_best, examined>>
    /\ UNCHANGED but_flt_vars

FltNext == SelectBest \/ FilterReject \/ FilterPass \/ FilterExhausted

FilterSpec == FltInit /\ [][FltNext]_vars

(***************************************************************************)
(* The model file format of src/vlbi_errors/spydiff.py: a list of          *)
(* components is exported to a file and the file is imported again.        *)
(*                                                                         *)
(* A component is a record of its variant (delta, cg, eg) and parameters   *)
(* p: flux, x, y, then bmaj, then e and bpa.  Axial ratios are in halves,  *)
(* angles of ellipses in degrees.  A position angle is kept as the         *)
(* direction it points to, [s, c, h] with sine s/h and cosine c/h; the     *)
(* positions drawn have an integer radius, so the conversions are exact.   *)
(***************************************************************************)
MaxComps == 2          \* length of the component list exported

e_one == 2             \* the axial ratio "1.00000", in halves
right_angle == 90      \* np.pi / 2, in degrees

\* Fields of a line.  v is the trailing marker of a free parameter, pad says
\* that the digits end with a zero after the decimal point.
fmt_v(val) == [val |-> val, v |-> TRUE, pad |-> FALSE]     \* "{}v".format(val)
fmt(val) == [val |-> val, v |-> FALSE, pad |-> FALSE]      \* "{}".format(val)
literal(val) == [val |-> val, v |-> FALSE, pad |-> TRUE]   \* "1.00000"

\* field[:-1]: the marker goes, or else the last digit does
drop_last(t) ==
    IF t.v THEN [t EXCEPT !.v = FALSE]
    ELSE IF t.pad THEN t
    ELSE [t EXCEPT !.val = t.val \div 10]

\* float(field): ValueError on a field that ends with the marker
float(t) == [ok |-> ~t.v, val |-> t.val]

\* try: float(field) except ValueError: float(field[:-1])
float_or_drop(t) == IF float(t).ok THEN float(t).val ELSE float(drop_last(t)).val

isqrt(n) == CHOOSE r \in 0..n : r * r <= n /\ (r + 1) * (r + 1) > n

hypot(x, y) == isqrt(x * x + y * y)

\* np.arctan2(a, b); arctan2(-0.0, -0.0) is -pi
arctan2(a, b) ==
    IF a = 0 /\ b = 0 THEN [s |-> 0, c |-> -1, h |-> 1]
    ELSE [s |-> a, c |-> b, h |-> hypot(a, b)]

\* Mutant: the position is read without the minus signs.
xy_unsigned(radius, theta) ==
    [x |-> (radius * theta.s) \div theta.h,
     y |-> (radius * theta.c) \div theta.h]

\* x = -radius * sin(theta), y = -radius * cos(theta)
xy(radius, theta) ==
    [x |-> (-radius * theta.s) \div theta.h,
     y |-> (-radius * theta.c) \div theta.h]

DeltaComponent(flux, x, y) == [type |-> "delta", p |-> <<flux, x, y>>]
CGComponent(flux, x, y, bmaj) == [type |-> "cg", p |-> <<flux, x, y, bmaj>>]
EGComponent(flux, x, y, bmaj, e, bpa) ==
    [type |-> "eg", p |-> <<flux, x, y, bmaj, e, bpa>>]

\* The line export_difmap_model writes for one component.
export_line(comp, freq_hz) ==
    LET flux == comp.p[1]
        x == comp.p[2]
        y == comp.p[3]
        bmaj == IF comp.type = "delta" THEN literal(0) ELSE fmt_v(comp.p[4])
        e == IF comp.type = "eg" THEN fmt_v(comp.p[5]) ELSE literal(e_one)
        bpa == IF comp.type = "eg" THEN fmt_v(comp.p[6] - right_angle)
               ELSE literal(0)
        type == IF comp.type = "delta" THEN 0 ELSE 1
    IN  [comment |-> FALSE,
         flux |-> fmt_v(flux), radius |-> fmt_v(hypot(x, y)),
         theta |-> fmt_v(arctan2(-x, -y)),
         major |-> bmaj, axial |-> e, phi |-> bpa, type |-> fmt(type),
         freq |-> fmt(freq_hz), spec |-> fmt(0)]

header == [comment |-> TRUE]

export_difmap_model(comps, freq_hz) ==
    <<header, header>> \o [i \in 1..Len(comps) |-> export_line(comps[i], freq_hz)]

\* The component import_difmap_model makes of one line of nine fields.
import_line(line) ==
    LET pos == xy(float(drop_last(line.radius)).val,
                  float(drop_last(line.theta)).val)
        flux == float(drop_last(line.flux)).val
    IN  IF float(line.type).val = 0
        THEN DeltaComponent(flux, pos.x, pos.y)
        ELSE LET bmaj == float_or_drop(line.major)
             IN  IF float(drop_last(line.axial)).val = e_one
                 THEN CGComponent(flux, pos.x, pos.y, bmaj)
                 ELSE EGComponent(flux, pos.x, pos.y, bmaj,
                                  float_or_drop(line.axial),
                                  float_or_drop(line.phi) + right_angle)

RECURSIVE import_lines(_)
import_lines(lines) ==
    IF Len(lines) = 0 THEN <<>>
    ELSE IF Head(lines).comment THEN import_lines(Tail(lines))
    ELSE <<import_line(Head(lines))>> \o import_lines(Tail(lines))

import_difmap_model(lines) == import_lines(lines)

\* Components of the three variants.
FluxVals == {-1, 3}
Positions == {<<0, 0>>, <<3, -4>>}
Components ==
    {DeltaComponent(f, xy0[1], xy0[2]) : f \in FluxVals, xy0 \in Positions}
    \cup {CGComponent(f, xy0[1], xy0[2], 2) : f \in FluxVals, xy0 \in Positions}
    \cup {EGComponent(f, xy0[1], xy0[2], 2, e, right_angle) :
              f \in FluxVals, xy0 \in Positions, e \in {1, e_one}}

RtInit ==
    /\ RunIdle
    /\ SelIdle
    /\ FltIdle
    /\ exp_comps \in UNION {[1..n -> Components] : n \in 0..MaxComps}
    /\ mdl_file = <<>>
    /\ imp_comps = <<>>
    /\ rt_pc = "idle"
    /\ OvIdle
    /\ SgIdle
    /\ NlIdle
    /\ ImIdle

Export ==
    /\ rt_pc = "idle"
    /\ \E freq_hz \in {1, 2} : mdl_file' = export_difmap_model(exp_comps, freq_hz)
    /\ rt_pc' = "exported"
    /\ UNCHANGED <<exp_comps, imp_comps>>
    /\ UNCHANGED but_rt_vars

Import ==
    /\ rt_pc = "exported"
    /\ imp_comps' = import_difmap_model(mdl_file)
    /\ rt_pc' = "imported"
    /\ UNCHANGED <<exp_comps, mdl_file>>
    /\ UNCHANGED but_rt_vars

RtNext == Export \/ Import

RoundTripSpec == RtInit /\ [][RtNext]_vars

(***************************************************************************)
(* OverlappingComponentsModelFilter.do_filter on the components of a model *)
(* file.  Positions and sizes are in units of 0.1 mas, axial ratios in     *)
(* halves.                                                                 *)
(***************************************************************************)
MaxModel == 3          \* components of the model file filtered

\* list.remove(x) on a copy: the list without the first element equal to x
RECURSIVE remove(_, _)
remove(s, x) ==
    IF Len(s) = 0 THEN s
    ELSE IF Head(s) = x THEN Tail(s)
    ELSE <<Head(s)>> \o remove(Tail(s), x)

\* np.hypot(dx, dy) squared
distance2(a, b) ==
    (a.p[2] - b.p[2]) * (a.p[2] - b.p[2]) + (a.p[3] - b.p[3]) * (a.p[3] - b.p[3])

\* twice the entry of `sizes` for a component of `others`
size2(comp) == IF Len(comp.p) = 4 THEN 2 * comp.p[4] ELSE comp.p[4] * comp.p[5]

\* dist / (size / 2 + last_comp.p[3] / 2) < 1.0, for sizes that are not both 0
ratio_below_one(comp, last_comp) ==
    16 * distance2(comp, last_comp)
        < (size2(comp) + 2 * last_comp.p[4]) * (size2(comp) + 2 * last_comp.p[4])

\* the entry of do_any_overlap for last_comp
any_overlap(comps, last_comp) ==
    LET others == remove(comps, last_comp)
    IN  \E j \in 1..Len(others) : ratio_below_one(others[j], last_comp)

\* AddedOverlappingComponentStopping.check_criterion on the components of
\* the newest file: the last component against last_comps[:-1]
AddedOverlappingComponentStopping_check_criterion(last_comps) ==
    LET last_comp == item(last_comps, -1)
        before == head(last_comps, Len(last_comps) - 1)
    IN  \E j \in 1..Len(before) : ratio_below_one(before[j], last_comp)

\* Mutant: only the core is compared with the others.
do_filter_core_only(comps) == any_overlap(comps, comps[1])

\* Mutant: only the newest component is compared with the others.
do_filter_newest_only(comps) == any_overlap(comps, comps[Len(comps)])

OverlappingComponentsModelFilter_do_filter(comps) ==
    \E i \in 1..Len(comps) : any_overlap(comps, comps[i])

\* Models as the driver builds them: a core that is a circular or an
\* elliptical gaussian, then circular gaussians.
OvPositions == {<<0, 0>>, <<3, 0>>, <<5, 0>>, <<20, 0>>}
OvSizes == {2, 10}
Jets == {CGComponent(1, xy0[1], xy0[2], sz) : xy0 \in OvPositions, sz \in OvSizes}
Cores == Jets \cup {EGComponent(1, xy0[1], xy0[2], sz, 1, 0) :
                        xy0 \in OvPositions, sz \in OvSizes}
Models ==
    UNION {{m \in [1..n -> Cores] : \A i \in 2..n : m[i] \in Jets}
           : n \in 1..MaxModel}

OvInit ==
    /\ RunIdle
    /\ SelIdle
    /\ FltIdle
    /\ RtIdle
    /\ ov_comps \in Models
    /\ ov_result = FALSE
    /\ ov_pc = "idle"
    /\ oc_result = FALSE
    /\ oc_pc = "idle"
    /\ SgIdle
    /\ NlIdle
    /\ ImIdle

DoFilter ==
    /\ ov_pc = "idle"
    /\ ov_result' = OverlappingComponentsModelFilter_do_filter(ov_comps)
    /\ ov_pc' = "returned"
    /\ UNCHANGED <<ov_comps, oc_result, oc_pc>>
    /\ UNCHANGED but_ov_vars

\* The overlap criterion is asked about the same model file.
CheckOverlapCriterion ==
    /\ oc_pc = "idle"
    /\ oc_result' = AddedOverlappingComponentStopping_check_criterion(ov_comps)
    /\ oc_pc' = "returned"
    /\ UNCHANGED <<ov_comps, ov_result, ov_pc>>
    /\ UNCHANGED but_ov_vars

OvNext == DoFilter \/ CheckOverlapCriterion

OverlapSpec == OvInit /\ [][OvNext]_vars

(***************************************************************************)
(* AutoModeler.suggest_component on a residual image.  Sizes and positions *)
(* are in units of 0.1 mas; a size is a record that is either not a number *)
(* or holds a value, and a square root is rounded down to the unit.        *)
(***************************************************************************)
MaxPix == 5            \* largest size inferred from the image, in pixels

bmaj_nan == 1          \* suggest_component(bmaj_nan=0.1)

NaN == [nan |-> TRUE, val |-> 0]
number(v) == [nan |-> FALSE, val |-> v]

\* np.isnan
isnan(a) == a.nan

\* bmaj *= mas_in_pix
times(a, k) == IF a.nan THEN NaN ELSE number(a.val * k)

\* np.sqrt(bmaj ** 2 - beam ** 2): not a number for a negative argument
sqrt_diff(a, beam) ==
    IF a.nan THEN NaN
    ELSE IF a.val * a.val - beam * beam < 0 THEN NaN
    ELSE number(isqrt(a.val * a.val - beam * beam))

\* Mutant: the value is not looked at again after the subtraction.
suggested_bmaj_unchecked(bmaj, mas_in_pix, beam) ==
    IF isnan(bmaj) THEN number(bmaj_nan)
    ELSE sqrt_diff(times(bmaj, mas_in_pix), beam)

\* the size of the component suggested, from the size inferred (pixels)
suggested_bmaj(bmaj, mas_in_pix, beam) ==
    LET b1 == IF isnan(bmaj) THEN number(bmaj_nan)
              ELSE sqrt_diff(times(bmaj, mas_in_pix), beam)
    IN  IF isnan(b1) THEN number(bmaj_nan) ELSE b1

\* x = mas_in_pix * (x - imsize / 2) * np.sign(image.dx)
sky_offset(pix, imsize, mas_in_pix, sign) ==
    mas_in_pix * (pix - imsize \div 2) * sign

suggest_component(image, type) ==
    LET x == sky_offset(image.x, image.imsize, image.mas_in_pix, image.sign_dx)
        y == sky_offset(image.y, image.imsize, image.mas_in_pix, image.sign_dy)
        bmaj == suggested_bmaj(image.bmaj, image.mas_in_pix, image.beam)
    IN  IF type = "cg" THEN CGComponent(image.amp, x, y, bmaj)
        ELSE EGComponent(image.amp, x, y, bmaj, e_one, 0)

\* Residual images: the beam, the pixel size, and what infer_gaussian finds.
Images ==
    [amp : {1}, x : {1, 3}, y : {3}, imsize : {4}, sign_dx : {-1, 1},
     sign_dy : {1}, mas_in_pix : {1, 2}, beam : 0..MaxPix,
     bmaj : {NaN} \cup {number(v) : v \in 0..MaxPix}]

SgInit ==
    /\ RunIdle
    /\ SelIdle
    /\ FltIdle
    /\ RtIdle
    /\ OvIdle
    /\ sg_image \in Images
    /\ sg_comp = <<>>
    /\ sg_pc = "idle"
    /\ NlIdle
    /\ ImIdle

SuggestComponent ==
    /\ sg_pc = "idle"
    /\ \E type \in {"cg", "eg"} : sg_comp' = suggest_component(sg_image, type)
    /\ sg_pc' = "returned"
    /\ UNCHANGED sg_image
    /\ UNCHANGED but_sg_vars

SgNext == SuggestComponent

SuggestSpec == SgInit /\ [][SgNext]_vars

(***************************************************************************)
(* check_criterion of the windowed criteria NLastDifferesFromLast and      *)
(* NLastDifferencesAreSmall, on the cores of the files fed so far.         *)
(***************************************************************************)
MaxWindow == 2                 \* largest n_check of a windowed criterion

delta_flux_min == 2            \* delta_flux_min=0.001
frac_flux_min_num == 1         \* frac_flux_min=0.002
frac_flux_min_den == 500
delta_size_min == 2            \* delta_size_min=0.001

\* s[start:stop] of a Python list; a negative index counts from the end
slice(s, start, stop) ==
    LET norm(i) == IF i < 0 THEN (IF Len(s) + i < 0 THEN 0 ELSE Len(s) + i)
                   ELSE (IF i > Len(s) THEN Len(s) ELSE i)
    IN  SubSeq(s, norm(start) + 1, norm(stop))

\* Mutant: the window ends with the newest file.
window_with_newest(cs, n_check) == slice(cs, -n_check, Len(cs))

\* files = self.files[-self.n_check-1: -1], as the cores of those files
window(cs, n_check) == slice(cs, -n_check - 1, -1)

\* d < self.flux_min, with flux_min = max(delta_flux_min, last_flux * frac_flux_min)
below_flux_min(d, last_flux) ==
    \/ d < delta_flux_min
    \/ d * frac_flux_min_den < last_flux * frac_flux_min_num

NLastDifferesFromLast_check_criterion(cs, n_check) ==
    LET comps == window(cs, n_check)
        last_comp == item(comps, -1)
    IN  \/ \A i \in 1..Len(comps) :
              below_flux_min(Abs(comps[i].flux - last_comp.flux), last_comp.flux)
        \/ \A i \in 1..Len(comps) :
              Abs(comps[i].size - last_comp.size) < delta_size_min

NLastDifferencesAreSmall_check_criterion(cs, n_check) ==
    LET comps == window(cs, n_check)
        last_comp == item(comps, -1)
    IN  /\ \A i \in 1..(Len(comps) - 1) :
              below_flux_min(Abs(comps[i].flux - comps[i + 1].flux), last_comp.flux)
        /\ \A i \in 1..(Len(comps) - 1) :
              Abs(comps[i].size - comps[i + 1].size) < delta_size_min

\* A criterion that is applicable: more than n_check files fed to it.
NlInit ==
    /\ RunIdle
    /\ SelIdle
    /\ FltIdle
    /\ RtIdle
    /\ OvIdle
    /\ SgIdle
    /\ nl_n_check \in 1..MaxWindow
    /\ \E n \in (nl_n_check + 1)..MaxHist : nl_cores \in [1..n -> CoreVals]
    /\ nl_verdict = FALSE
    /\ nl_pc = "none"
    /\ ImIdle

CheckDiffersFromLast ==
    /\ nl_verdict' = NLastDifferesFromLast_check_criterion(nl_cores, nl_n_check)
    /\ nl_pc' = "differs"
    /\ UNCHANGED <<nl_cores, nl_n_check>>
    /\ UNCHANGED but_nl_vars

CheckDifferencesAreSmall ==
    /\ nl_verdict' = NLastDifferencesAreSmall_check_criterion(nl_cores, nl_n_check)
    /\ nl_pc' = "small"
    /\ UNCHANGED <<nl_cores, nl_n_check>>
    /\ UNCHANGED but_nl_vars

NlNext == CheckDiffersFromLast \/ CheckDifferencesAreSmall

NLastSpec == NlInit /\ [][NlNext]_vars

(***************************************************************************)
(* The lazy properties ccimage, beam and total_flux of AutoModeler.  An    *)
(* image is known by the number of the clean_difmap call that rendered it. *)
(* clean_difmap runs the backend and does not raise; the image file is     *)
(* then read, which raises when the backend has left no readable file.     *)
(***************************************************************************)
MaxAccess == 6         \* accesses of the properties that are explored

\* Mutant: the image is rendered whether or not one is cached.
ccimage_uncached(cache, calls, ok) ==
    [cache |-> IF ok THEN calls + 1 ELSE cache,
     calls |-> calls + 1,
     image |-> IF ok THEN calls + 1 ELSE 0,
     raised |-> ~ok]

\* The property ccimage: the cache and the count of backend calls after the
\* access, and the image returned or the exception raised.  ok says that the
\* file the backend wrote can be read.
ccimage(cache, calls, ok) ==
    IF cache = 0
    THEN [cache |-> IF ok THEN calls + 1 ELSE 0,
          calls |-> calls + 1,
          image |-> IF ok THEN calls + 1 ELSE 0,
          raised |-> ~ok]
    ELSE [cache |-> cache, calls |-> calls, image |-> cache, raised |-> FALSE]

ImInit ==
    /\ RunIdle
    /\ SelIdle
    /\ FltIdle
    /\ RtIdle
    /\ OvIdle
    /\ SgIdle
    /\ NlIdle
    /\ ImIdle

\* automodeler.ccimage, from the driver or from set_ccimage(self.ccimage)
AccessCcimage ==
    /\ n_access < MaxAccess
    /\ n_access' = n_access + 1
    /\ \E ok \in BOOLEAN :
          LET a == ccimage(cached_ccimage, clean_calls, ok)
          IN  /\ cached_ccimage' = a.cache
              /\ clean_calls' = a.calls
              /\ got' = [property |-> "ccimage", image |-> a.image,
                         raised |-> a.raised]
    /\ UNCHANGED <<cached_beam, cached_total_flux>>
    /\ UNCHANGED but_im_vars

\* automodeler.beam: self.ccimage.beam[0] * self.ccimage.beam[1] when not cached
AccessBeam ==
    /\ n_access < MaxAccess
    /\ n_access' = n_access + 1
    /\ \E ok \in BOOLEAN :
          IF cached_beam # 0
          THEN /\ got' = [property |-> "beam", image |-> cached_beam,
                          raised |-> FALSE]
               /\ UNCHANGED <<cached_ccimage, cached_beam, clean_calls>>
          ELSE LET a == ccimage(cached_ccimage, clean_calls, ok)
                   b == ccimage(a.cache, a.calls, ok)
               IN  /\ cached_ccimage' = IF a.raised THEN a.cache ELSE b.cache
                   /\ clean_calls' = IF a.raised THEN a.calls ELSE b.calls
                   /\ cached_beam' = IF a.raised THEN 0 ELSE b.image
                   /\ got' = [property |-> "beam",
                              image |-> IF a.raised THEN 0 ELSE b.image,
                              raised |-> a.raised]
    /\ UNCHANGED cached_total_flux
    /\ UNCHANGED but_im_vars

\* automodeler.total_flux: self.ccimage.total_flux when not cached
AccessTotalFlux ==
    /\ n_access < MaxAccess
    /\ n_access' = n_access + 1
    /\ \E ok \in BOOLEAN :
          IF cached_total_flux # 0
          THEN /\ got' = [property |-> "total_flux", image |-> cached_total_flux,
                          raised |-> FALSE]
               /\ UNCHANGED <<cached_ccimage, cached_total_flux, clean_calls>>
          ELSE LET a == ccimage(cached_ccimage, clean_calls, ok)
               IN  /\ cached_ccimage' = a.cache
                   /\ clean_calls' = a.calls
                   /\ cached_total_flux' = a.image
                   /\ got' = [property |-> "total_flux", image |-> a.image,
                              raised |-> a.raised]
    /\ UNCHANGED cached_beam
    /\ UNCHANGED but_im_vars

ImNext == AccessCcimage \/ AccessBeam \/ AccessTotalFlux

ImageSpec == ImInit /\ [][ImNext]_vars

(***************************************************************************)
(* Properties of the forward loop.                                         *)
(***************************************************************************)
\* The latest pass of the loop fed every stopper and took its decision.
Evaluated ==
    /\ pc \in {"loop", "done"}
    /\ counter >= 1
    /\ Len(decisions) = Len(stoppers)

AndIdx == ModeIdx(stoppers, "and")
OrIdx == ModeIdx(stoppers, "or")
WhileIdx == ModeIdx(stoppers, "while")

\* C1: on every iteration on which at least one WHILE-mode criterion's
\* do_stop returns true, the loop continues to the next iteration.
C1_WhileTrueContinues ==
    (Evaluated /\ \E i \in WhileIdx : decisions[i]) => pc = "loop"

\* C2 as stated: the loop never stops on an iteration on which some AND-mode
\* criterion is inapplicable or returns false.
C2_NeverStopsWithAndFalse ==
    (Evaluated /\ pc = "done") => \A i \in AndIdx : decisions[i]

\* C2 amended: the loop stops on an iteration on which some AND-mode
\* criterion is inapplicable or returns false only if some OR-mode criterion
\* (the appended cap criterion is one) returned true on that iteration.
C2_StopsWithAndFalseOnlyByOr ==
    (Evaluated /\ pc = "done" /\ \E i \in AndIdx : ~decisions[i])
        => \E j \in OrIdx : decisions[j]

C2_Witness ==
    /\ Evaluated /\ pc = "done"
    /\ \E i \in AndIdx : ~decisions[i]
    /\ \E j \in OrIdx : decisions[j]

\* C3: on every iteration on which the WHILE group does not force
\* continuation (no WHILE-mode do_stop returned false), the loop stops if and
\* only if every AND-mode do_stop returned true or some OR-mode do_stop
\* returned true.
C3_StopDecision ==
    (Evaluated /\ \A i \in WhileIdx : decisions[i])
        => (pc = "done" <=> ((\A i \in AndIdx : decisions[i])
                             \/ (\E j \in OrIdx : decisions[j])))

C3_Witness ==
    /\ Evaluated /\ pc = "loop"
    /\ WhileIdx # {} /\ \A i \in WhileIdx : decisions[i]
    /\ \E i \in AndIdx : ~decisions[i]
    /\ \A j \in OrIdx : ~decisions[j]

\* C4: the forward loop never produces a fitted model file whose iteration
\* number exceeds n_comps_terminate.
C4_NeverExceedsCap ==
    /\ \A n \in DOMAIN disk : disk[n] # 0 => n <= n_comps_terminate
    /\ \A i \in 1..Len(fitted_model_paths) :
          file_number(fitted_model_paths[i].name) <= n_comps_terminate

\* C5: the appended cap criterion guarantees that run leaves its loop: once
\* iteration n_comps_terminate + 1 has been evaluated, on which
\* NLastJustStop returns true, the loop is not running any more.
C5_CapEndsLoop ==
    pc = "loop" => counter <= n_comps_terminate

\* C6: a do_stop call made while the criterion is not applicable returns
\* false, does not invoke check_criterion, and appends new_file to files.
C6_InapplicableDoStop ==
    [][(pc = "loop" /\ pc' \in {"loop", "done"} /\ counter' = counter + 1)
          => \A i \in 1..Len(stoppers) :
                Len(stoppers'[i].files) <= stoppers'[i].n_check
                   => /\ decisions'[i] = FALSE
                      /\ stoppers'[i].nchecked = stoppers[i].nchecked
                      /\ stoppers'[i].files =
                            Append(stoppers[i].files, mdl_path(counter'))]_vars

C6_Witness ==
    /\ Evaluated
    /\ \E i \in 1..Len(stoppers) :
          /\ stoppers[i].kind = "verdict"
          /\ stoppers[i].n_check = 1
          /\ stoppers[i].files = <<mdl_path(1)>>
          /\ stoppers[i].nchecked = 0
          /\ ~decisions[i]

\* C7: with a refit that keeps the number of components, the file fitted at
\* iteration N+1 has exactly one more component than the file fitted at
\* iteration N.
C7_OneMoreComponent ==
    \A n \in 1..(counter - 1) :
        (disk[n] # 0 /\ disk[n + 1] # 0) => disk[n + 1] = disk[n] + 1

C7_Witness ==
    /\ counter >= 3
    /\ \A n \in 1..counter : disk[n] = n

\* C8: when the backend fails during an iteration, the iteration counter has
\* the value it had before that iteration started.
C8_CounterKeptOnFailure ==
    [][(pc = "loop" /\ pc' = "failed") => counter' = counter]_vars

(***************************************************************************)
(* Properties of the selectors.                                            *)
(***************************************************************************)
\* The files of sel_files in the order of their iteration numbers.
InOrder ==
    LET nums == list([i \in 1..Len(sel_files) |-> file_number(sel_files[i].name)])
        rank(i) == Cardinality({j \in 1..Len(nums) : nums[j] < nums[i]}) + 1
    IN  list([r \in 1..Len(sel_files) |->
                sel_files[CHOOSE i \in 1..Len(nums) : rank(i) = r]])

ValuesOf(files, field) ==
    list([i \in 1..Len(files) |->
             IF field = "flux" THEN hist[files[i]].flux ELSE hist[files[i]].size])

\* C9: for every listing order of the files of a history, select returns the
\* index it returns for the files in iteration-number order.
C9_SelectOrderIndependent ==
    /\ sel_pc = "flux" => sel_k = flux_index(ValuesOf(InOrder, "flux"))
    /\ sel_pc = "size" => sel_k = size_index(ValuesOf(InOrder, "size"))

\* a listing out of order, on which the values read in listing order would
\* give another index
C9_Witness ==
    /\ sel_files # InOrder
    /\ \/ /\ sel_pc = "flux" /\ sel_k > 0
          /\ flux_index(ValuesOf(sel_files, "flux")) # sel_k
       \/ /\ sel_pc = "size" /\ sel_k > 0
          /\ size_index(ValuesOf(sel_files, "size")) # sel_k

\* The convergence mask of the history the latest select was given.
SelMask ==
    IF sel_pc = "flux" THEN flux_mask(ValuesOf(InOrder, "flux"))
    ELSE size_mask(ValuesOf(InOrder, "size"))

\* Entry i (from 1) of a mask lies in a run of at least two true entries.
InRun(a, i) ==
    /\ a[i]
    /\ \/ i > 1 /\ a[i - 1]
       \/ i < Len(a) /\ a[i + 1]

\* 0-based position of the first entry of a that lies in a run, 0 if none
FirstRunStart(a) ==
    IF \E i \in 1..Len(a) : InRun(a, i)
    THEN (CHOOSE i \in 1..Len(a) :
             InRun(a, i) /\ \A j \in 1..(i - 1) : ~InRun(a, j)) - 1
    ELSE 0

TrueCount(a) == Cardinality({i \in 1..Len(a) : a[i]})

\* C11 as stated: the index returned is the position of the first true entry
\* of the opened mask (the start of a run of two or more in-threshold
\* values), and 0 when the opened mask has no true entry, a lone true entry
\* erased by the opening included.
C11_FirstOfOpenedMask ==
    sel_pc # "none" => sel_k = FirstRunStart(SelMask)

\* C11 amended: a mask with exactly one true entry is not opened and the
\* index returned is the position of that entry; otherwise the index is the
\* position of the first true entry of the opened mask, 0 if it has none.
C11_FirstOfOpenedMaskUnlessLone ==
    sel_pc # "none" =>
        sel_k = IF TrueCount(SelMask) = 1
                THEN (CHOOSE i \in 1..Len(SelMask) : SelMask[i]) - 1
                ELSE FirstRunStart(SelMask)

\* a history of three files whose mask has the lone true entry at the end
C11_Witness ==
    /\ sel_pc # "none"
    /\ Len(sel_files) = 3
    /\ TrueCount(SelMask) = 1
    /\ sel_k = 2

(***************************************************************************)
(* Properties of the backward walk of the filters.                         *)
(***************************************************************************)
\* index the selectors chose for the history of the walk
Chosen ==
    Max(FluxBasedModelSelector_select(sel_files, hist),
        SizeBasedModelSelector_select(sel_files, hist))

\* indices not above the chosen one whose model passes every filter
Passing == {j \in 0..Chosen : ~rejected[sel_files[j + 1]]}

\* C12 as stated: when every candidate from the chosen index down to index 0
\* is rejected by some filter, the walk ends with the model at index 0
\* reported as the best model.
C12_ExhaustionReportsSimplest ==
    (flt_pc = "reported" /\ Passing = {}) => best_model = sel_files[1]

\* C13: when some index not above the chosen one passes every filter, the
\* walk ends at the highest such index, the best model reported is the one
\* at that index, and the models examined are exactly those from the chosen
\* index down to that index, each in turn.
C13_EndsAtHighestPassing ==
    (flt_pc = "reported" /\ Passing # {}) =>
        LET h == CHOOSE j \in Passing : \A i \in Passing : i <= j
        IN  /\ id_best = h
            /\ best_model = sel_files[h + 1]
            /\ Len(examined) = Chosen - h + 1
            /\ \A i \in 1..Len(examined) :
                   examined[i] = sel_files[Chosen + 2 - i]

\* a walk that stepped back over two rejected models to a passing one
C13_Witness ==
    /\ flt_pc = "reported"
    /\ Chosen = 2
    /\ Passing = {0}
    /\ id_best = 0
    /\ Len(examined) = 3

\* C14 as stated: the walk ends having examined each candidate at most once
\* and with a final candidate index that is not below 0.
C14_WalkEndsAtOrAboveZero ==
    flt_pc = "reported" =>
        /\ id_best >= 0
        /\ \A i, j \in 1..Len(examined) : examined[i] = examined[j] => i = j

(***************************************************************************)
(* Properties of the model file format.                                    *)
(***************************************************************************)
\* flux, position and, for a gaussian, size of two components are equal
SameFluxPositionSize(a, b) ==
    /\ a.p[1] = b.p[1]
    /\ a.p[2] = b.p[2]
    /\ a.p[3] = b.p[3]
    /\ (a.type # "delta" /\ b.type # "delta") => a.p[4] = b.p[4]

\* C15 as stated: the list imported from an exported list has the same
\* number of components, in the same order, each of the same variant and
\* with equal flux, position and size, an elliptical gaussian of axial ratio
\* exactly 1 included.
C15_RoundTripKeepsVariant ==
    rt_pc = "imported" =>
        /\ Len(imp_comps) = Len(exp_comps)
        /\ \A i \in 1..Len(exp_comps) :
               /\ imp_comps[i].type = exp_comps[i].type
               /\ SameFluxPositionSize(imp_comps[i], exp_comps[i])

\* C15 amended: the list imported has the same number of components, in the
\* same order, with equal flux, position and size; a delta comes back a
\* delta, a circular gaussian a circular gaussian, an elliptical gaussian of
\* axial ratio other than 1 an elliptical gaussian of that axial ratio, and
\* an elliptical gaussian of axial ratio exactly 1 a circular gaussian.
C15_RoundTripCircularAtOne ==
    rt_pc = "imported" =>
        /\ Len(imp_comps) = Len(exp_comps)
        /\ \A i \in 1..Len(exp_comps) :
               /\ SameFluxPositionSize(imp_comps[i], exp_comps[i])
               /\ IF exp_comps[i].type = "eg" /\ exp_comps[i].p[5] # e_one
                  THEN /\ imp_comps[i].type = "eg"
                       /\ imp_comps[i].p[5] = exp_comps[i].p[5]
                  ELSE IF exp_comps[i].type = "eg"
                  THEN imp_comps[i].type = "cg"
                  ELSE imp_comps[i].type = exp_comps[i].type

\* a delta off the origin and an elliptical gaussian of axial ratio 1 have
\* made the round trip
C15_Witness ==
    /\ rt_pc = "imported"
    /\ Len(exp_comps) = 2
    /\ exp_comps[1].type = "delta" /\ exp_comps[1].p[2] # 0
    /\ exp_comps[2].type = "eg" /\ exp_comps[2].p[5] = e_one
    /\ imp_comps[2].type = "cg"

(***************************************************************************)
(* Properties of the windowed criteria.                                    *)
(***************************************************************************)
\* C16: a criterion with window n_check is not applicable on each of the
\* first n_check files fed to it, and its do_stop returns false on them; from
\* file n_check + 1 on it is applicable and check_criterion is invoked on
\* every file.  So check_criterion has been invoked once per file beyond the
\* first n_check.
C16_ApplicableAfterWindow ==
    \A i \in 1..Len(stoppers) :
        LET c == stoppers[i]
        IN  /\ c.nchecked = IF Len(c.files) > c.n_check
                            THEN Len(c.files) - c.n_check
                            ELSE 0
            /\ (Evaluated /\ Len(c.files) <= c.n_check) => decisions[i] = FALSE
            /\ (Evaluated /\ Len(c.files) > c.n_check) => decisions[i] \in BOOLEAN

\* the criterion of window 2 at iteration 3: its first verdict
C16_Witness ==
    /\ Evaluated
    /\ counter = 3
    /\ \E i \in 1..Len(stoppers) :
          /\ stoppers[i].n_check = 2
          /\ Len(stoppers[i].files) = 3
          /\ stoppers[i].nchecked = 1
          /\ decisions[i]

(***************************************************************************)
(* Properties of the overlap filter.                                       *)
(***************************************************************************)
\* C17: do_filter rejects exactly when, for some pair of distinct components
\* of the model, the distance of their centres divided by the sum of their
\* half sizes is below 1 (4 d^2 < (size_a + size_b)^2), whichever of the
\* two is the newest; the size of a component is its major axis.  A model
\* of one component has no pair and is not rejected.
C17_RejectsIffSomePairOverlaps ==
    ov_pc = "returned" =>
        ov_result =
            \E i, j \in 1..Len(ov_comps) :
                /\ i # j
                /\ LET a == ov_comps[i]
                       b == ov_comps[j]
                       dx == a.p[2] - b.p[2]
                       dy == a.p[3] - b.p[3]
                   IN  4 * (dx * dx + dy * dy)
                           < (a.p[4] + b.p[4]) * (a.p[4] + b.p[4])

\* components of size 1.0 mas at (0, 0) and (0.3, 0): rejected
C17_Witness ==
    /\ ov_pc = "returned"
    /\ Len(ov_comps) = 2
    /\ ov_comps[1] = CGComponent(1, 0, 0, 10)
    /\ ov_comps[2] = CGComponent(1, 3, 0, 10)
    /\ ov_result = TRUE

(***************************************************************************)
(* Properties of suggest_component.                                        *)
(***************************************************************************)
\* the size inferred from the image, in the units of the beam
InferredSize == sg_image.bmaj.val * sg_image.mas_in_pix

\* C18 as stated: the size of the component returned is never NaN, and it
\* is the fallback bmaj_nan whenever the size inferred is NaN or the beam is
\* greater than or equal to the size inferred.
C18_FallbackWhenBeamNotBelow ==
    sg_pc = "returned" =>
        /\ ~sg_comp.p[4].nan
        /\ (sg_image.bmaj.nan \/ sg_image.beam >= InferredSize)
               => sg_comp.p[4].val = bmaj_nan

\* C18 amended: the size of the component returned is never NaN, and it is
\* the fallback bmaj_nan whenever the size inferred is NaN or the beam is
\* strictly greater than the size inferred; a beam equal to the size
\* inferred gives the size 0.
C18_FallbackWhenBeamAbove ==
    sg_pc = "returned" =>
        /\ ~sg_comp.p[4].nan
        /\ (sg_image.bmaj.nan \/ sg_image.beam > InferredSize)
               => sg_comp.p[4].val = bmaj_nan
        /\ (~sg_image.bmaj.nan /\ sg_image.beam = InferredSize)
               => sg_comp.p[4].val = 0

\* a beam above the size inferred: the fallback is returned
C18_Witness ==
    /\ sg_pc = "returned"
    /\ ~sg_image.bmaj.nan
    /\ sg_image.beam > InferredSize
    /\ InferredSize > 0
    /\ sg_comp.p[4] = number(bmaj_nan)

(***************************************************************************)
(* Properties of what run gives its caller.                                *)
(***************************************************************************)
\* C19 as stated: a run that has ended has given its caller exactly one of
\* the path of the accepted best model file and the failed-to-find-best-model
\* outcome (FailedFindBestModelException).
C19_RunGivesPathOrFailure ==
    pc \in {"done", "failed"} =>
        run_outcome \in {"path", "FailedFindBestModelException"}

(***************************************************************************)
(* Properties of the verdicts of the windowed criteria.                    *)
(***************************************************************************)
\* the last n_check cores, the one of the newest file included
LastWithNewest ==
    [i \in 1..nl_n_check |-> nl_cores[Len(nl_cores) - nl_n_check + i]]

Newest == nl_cores[Len(nl_cores)]

\* a difference of fluxes is below max(delta_flux_min, frac_flux_min * flux)
SmallFlux(d, flux) == d < delta_flux_min \/ d * frac_flux_min_den < flux * frac_flux_min_num

\* C20 as stated: the verdict of NLastDifferesFromLast is computed from the
\* cores of the last n_check files, the newest included, each compared with
\* the core of the newest file; the verdict of NLastDifferencesAreSmall from
\* the consecutive pairs among those same files.
C20_WindowIncludesNewest ==
    /\ nl_pc = "differs" =>
          nl_verdict =
             (\/ \A i \in 1..nl_n_check :
                    SmallFlux(Abs(LastWithNewest[i].flux - Newest.flux), Newest.flux)
              \/ \A i \in 1..nl_n_check :
                    Abs(LastWithNewest[i].size - Newest.size) < delta_size_min)
    /\ nl_pc = "small" =>
          nl_verdict =
             (/\ \A i \in 1..(nl_n_check - 1) :
                    SmallFlux(Abs(LastWithNewest[i].flux - LastWithNewest[i + 1].flux),
                              Newest.flux)
              /\ \A i \in 1..(nl_n_check - 1) :
                    Abs(LastWithNewest[i].size - LastWithNewest[i + 1].size)
                        < delta_size_min)

(***************************************************************************)
(* Properties of the order in which run evaluates the criteria.            *)
(***************************************************************************)
\* the step is a pass of the loop in which do_iteration succeeded
LoopPass == pc = "loop" /\ pc' \in {"loop", "done"} /\ counter' = counter + 1

\* C21 as stated: in every pass of the loop the WHILE criteria are called
\* before every AND and OR criterion, and in a pass in which the WHILE group
\* forces continuation check_criterion of no AND or OR criterion is invoked.
C21_WhileFirstAndShortCircuit ==
    [][LoopPass =>
          /\ \A a, b \in 1..Len(call_order') :
                (/\ stoppers'[call_order'[a]].mode = "while"
                 /\ stoppers'[call_order'[b]].mode # "while") => a < b
          /\ (\E i \in 1..Len(stoppers') :
                 stoppers'[i].mode = "while" /\ ~decisions'[i])
                => \A j \in 1..Len(stoppers') :
                      stoppers'[j].mode # "while"
                         => stoppers'[j].nchecked = stoppers[j].nchecked]_vars

(***************************************************************************)
(* Properties of the histories kept by the criteria and by the driver.     *)
(***************************************************************************)
\* C22: in a run with freshly constructed criteria, after every pass of the
\* loop the files of every registered criterion, whatever its mode, are the
\* model files produced so far in creation order, one per pass, a pass in
\* which the WHILE group forces continuation included.
C22_EveryCriterionHoldsTheHistory ==
    pc \in {"loop", "done"} =>
        \A i \in 1..Len(stoppers) :
            /\ Len(stoppers[i].files) = counter
            /\ \A k \in 1..counter : stoppers[i].files[k] = mdl_path(k)
            /\ stoppers[i].files = fitted_model_paths

\* the second pass, forced to continue by a WHILE criterion, has fed an AND
\* criterion its second file
C22_Witness ==
    /\ Evaluated
    /\ pc = "loop"
    /\ counter = 2
    /\ \E i \in WhileIdx : ~decisions[i]
    /\ \E j \in AndIdx : Len(stoppers[j].files) = 2

\* C23: a pass of the loop numbered N writes no init or fitted model file of
\* another number, and after it fitted_model_paths holds the fitted files
\* numbered 1..N in increasing order and without duplicates, so that index k
\* of the history is the file numbered k + 1.
C23_WritesOnlyItsOwnNumber ==
    [][/\ \A k \in 1..MaxIter :
              k # counter' => /\ disk'[k] = disk[k]
                              /\ init_files'[k] = init_files[k]
       /\ pc' \in {"loop", "done"} =>
              /\ Len(fitted_model_paths') = counter'
              /\ \A k \in 1..counter' :
                     /\ file_number(fitted_model_paths'[k].name) = k
                     /\ disk'[k] > 0
                     /\ init_files'[k] > 0]_vars

\* the third pass has written init_3 and fitted_3 and the history has three
\* files
C23_Witness ==
    /\ pc \in {"loop", "done"}
    /\ counter = 3
    /\ Len(fitted_model_paths) = 3
    /\ file_number(fitted_model_paths[3].name) = 3
    /\ init_files[3] = 3
    /\ disk[3] = 3

(***************************************************************************)
(* Properties of the cached reference image.                               *)
(***************************************************************************)
\* C24 as stated: whatever the accesses to ccimage, beam and total_flux, the
\* backend is asked to render the reference image at most once.
C24_RenderedAtMostOnce == clean_calls <= 1

\* C24 amended: the backend is asked to render the reference image on every
\* access made while no image is cached, a render whose file cannot be read
\* leaves nothing cached and raises; once a render has succeeded the backend
\* is not asked again and every later access returns that same image, or
\* the beam or total flux of it.
C24_RenderedUntilCachedThenNever ==
    /\ cached_ccimage # 0 => cached_ccimage = clean_calls
    /\ cached_beam # 0 => cached_beam = cached_ccimage
    /\ cached_total_flux # 0 => cached_total_flux = cached_ccimage
    /\ (got.property # "none" /\ ~got.raised)
           => got.image # 0 /\ got.image = cached_ccimage
    /\ got.raised => cached_ccimage = 0 /\ clean_calls > 0

\* an access after the image was cached: one backend call, the image of it
C24_Witness ==
    /\ clean_calls = 1
    /\ cached_ccimage = 1
    /\ cached_beam = 1
    /\ got = [property |-> "total_flux", image |-> 1, raised |-> FALSE]

C26_VacuousAndStops ==
    /\ (Evaluated /\ \A i \in 1..Len(stoppers) :
                        /\ stoppers[i].mode # "and"
                        /\ stoppers[i].mode = "while" => decisions[i])
          => pc = "done"
    /\ (\A i \in 1..Len(stoppers) : stoppers[i].mode = "or")
          => /\ counter <= 1
             /\ pc = "loop" => counter = 0

\* the run of OR criteria only has stopped in pass 1 with every OR criterion,
\* the cap included, returning false
C26_Witness ==
    /\ Evaluated
    /\ pc = "done"
    /\ counter = 1
    /\ Len(stoppers) >= 2
    /\ \A i \in 1..Len(stoppers) : stoppers[i].mode = "or" /\ ~decisions[i]

C28_IndexWithinHistory ==
    sel_pc # "none" =>
        /\ Len(sel_files) >= 1
        /\ sel_k >= 0
        /\ sel_k <= Len(sel_files) - 1

\* a history whose last core has a negative flux: the mask is empty and the
\* index is 0
C28_Witness ==
    /\ sel_pc = "flux"
    /\ Len(sel_files) = 3
    /\ ValuesOf(InOrder, "flux")[3] < 0
    /\ TrueCount(SelMask) = 0
    /\ sel_k = 0

\* C29: for a model file of at least two components, when check_criterion of
\* AddedOverlappingComponentStopping is true for the file, do_filter of
\* OverlappingComponentsModelFilter rejects the file.
C29_FilterSubsumesCriterion ==
    (/\ ov_pc = "returned"
     /\ oc_pc = "returned"
     /\ Len(ov_comps) >= 2
     /\ oc_result) => ov_result

\* the newest of three components overlaps the one before it, not the core;
\* the criterion is true and the filter rejects
C29_Witness ==
    /\ ov_pc = "returned"
    /\ oc_pc = "returned"
    /\ Len(ov_comps) = 3
    /\ ov_comps[1].p[2] = 20
    /\ ov_comps[2] = CGComponent(1, 0, 0, 10)
    /\ ov_comps[3] = CGComponent(1, 3, 0, 10)
    /\ oc_result
    /\ ov_result

\* C30: clear() sets counter to 0 and empties fitted_model_paths and leaves
\* the in-memory model unchanged; the first iteration of a run started after
\* it without a start model subtracts the last model of the previous run from
\* the data (not the raw data) and writes init and fitted file number 1.
C30_ClearKeepsTheModel ==
    [][/\ (counter > 0 /\ counter' = 0) =>
            /\ fitted_model_paths' = <<>>
            /\ model' = model
            /\ disk' = disk
       /\ (pc = "loop" /\ counter = 0 /\ model > 0 /\ pc' # "failed") =>
            /\ residuals' = model
            /\ residuals' > 0
            /\ counter' = 1
            /\ fitted_model_paths' = <<mdl_path(1)>>
            /\ init_files'[1] = 1
            /\ disk'[1] = 1]_vars

\* the first iteration of a run after clear() has finished: the residuals
\* were made from the two-component model the previous run left, the files
\* are numbered 1
C30_Witness ==
    /\ counter = 1
    /\ pc \in {"loop", "done"}
    /\ residuals = 2
    /\ fitted_model_paths = <<mdl_path(1)>>
    /\ disk[1] = 1
    /\ disk[2] = 2
    /\ model = 1

====
